---- MODULE Spec2Model ----
(***************************************************************************)
(* Point cloud completion networks of the 3D-LiDAR-Scanner repository:     *)
(*   SimplePCN                (convert_pcn_to_coreml.py)                   *)
(*   PointCloudCompletionNet  (create_pcn_model.py)                        *)
(* and the conversion pipeline main() of convert_pcn_to_coreml.py.         *)
(*                                                                         *)
(* Tensors are records [err, shape, data] with data in row-major order,    *)
(* as a contiguous torch tensor stores it.  Numbers are integers: the      *)
(* float32 arithmetic of the source is modelled exactly (no rounding),     *)
(* division and square root round down.  Layer widths are reduced from     *)
(* the widths in the source (128, 256, 512, ...) to the small widths named *)
(* below; the shape rules of every operation are those of the source.      *)
(***************************************************************************)
EXTENDS Integers, Sequences, FiniteSets

(* ------------------------------ bounds --------------------------------- *)
\* hidden width of every layer (64..4096 in the source)
Width == 2
\* feature_dim (512 for SimplePCN, 1024 for PointCloudCompletionNet)
FEATURE_DIM == 2
\* output_points (2048 in the source)
OUTPUT_COUNT == 2
\* input_points (1024 in the source): the point count of the example inputs
INPUT_COUNT == 2
\* largest batch and largest cloud passed to forward
MaxBatch == 2
MaxPoints == 2
\* largest number of points in one call, over the whole batch
MaxCells == 4
\* number of distinct states of the random number generator at initialization
NumSeeds == 2
\* weights are drawn in units of 1/WeightScale
WeightScale == 4

(* --------------------------- tensor primitives -------------------------- *)
RECURSIVE Prod(_)
Prod(s) == IF s = <<>> THEN 1 ELSE Head(s) * Prod(Tail(s))

RECURSIVE SumSeq(_)
SumSeq(s) == IF s = <<>> THEN 0 ELSE Head(s) + SumSeq(Tail(s))

RECURSIVE Isqrt(_)
Isqrt(n) == IF n < 1 THEN 0
            ELSE LET r == 2 * Isqrt(n \div 4)
                 IN IF (r + 1) * (r + 1) <= n THEN r + 1 ELSE r

Max2(a, b) == IF a >= b THEN a ELSE b

RECURSIVE MaxSeq(_)
MaxSeq(s) == IF Len(s) = 1 THEN s[1] ELSE Max2(Head(s), MaxSeq(Tail(s)))

\* a tensor of the given shape holding data (row-major); the concatenation
\* makes the data a sequence stored element by element
Tensor(shape, data) == [err |-> FALSE, shape |-> shape, data |-> data \o <<>>]

\* the exception torch raises for a shape mismatch, propagated by every
\* later operation of the forward pass
ShapeError == [err |-> TRUE, shape |-> <<>>, data |-> <<>>]

Numel(t) == Prod(t.shape)

\* element [r][c] of a 2-d tensor, element [b][c][n] of a 3-d tensor (1-based)
At2(t, r, c) == t.data[(r - 1) * t.shape[2] + c]
At3(t, b, c, n) == t.data[((b - 1) * t.shape[2] + (c - 1)) * t.shape[3] + n]

\* a reshape that fills the points coordinate by coordinate (all x, then all
\* y, then all z) instead of keeping the storage order
ViewData_CoordinateMajor(t, shape) ==
    IF Len(shape) = 3 /\ Len(t.shape) = 2
    THEN [k \in 1..Len(t.data) |->
            LET P == shape[2]
                C == shape[3]
                b == (k - 1) \div (P * C)
                i == ((k - 1) % (P * C)) \div C
                c == (k - 1) % C
            IN t.data[b * P * C + c * P + i + 1]]
    ELSE t.data

\* Tensor.view keeps the storage: the elements in the same row-major order
ViewData(t, shape) == t.data

\* Tensor.view(target): target may hold one -1, whose size is inferred; the
\* sizes must account for every element
View(t, target) ==
    IF t.err THEN ShapeError
    ELSE LET known == Prod([i \in 1..Len(target) |->
                              IF target[i] = -1 THEN 1 ELSE target[i]])
             infer == \E i \in 1..Len(target) : target[i] = -1
             shape == [i \in 1..Len(target) |->
                         IF target[i] = -1 THEN Numel(t) \div known ELSE target[i]]
         IN IF infer
            THEN IF known = 0 \/ Numel(t) % known # 0
                 THEN ShapeError
                 ELSE Tensor(shape, ViewData(t, shape))
            ELSE IF Numel(t) # known THEN ShapeError
                 ELSE Tensor(shape, ViewData(t, shape))

\* Tensor.transpose(1, 2) of a 3-d tensor
Transpose12(t) ==
    IF t.err \/ Len(t.shape) # 3 THEN ShapeError
    ELSE LET B == t.shape[1]
             N == t.shape[2]
             D == t.shape[3]
         IN Tensor(<<B, D, N>>,
                   [k \in 1..(B * D * N) |->
                      LET b == (k - 1) \div (D * N) + 1
                          d == ((k - 1) % (D * N)) \div N + 1
                          n == ((k - 1) % N) + 1
                      IN At3(t, b, n, d)])

\* Tensor.squeeze(-1): drops the last dimension when its size is 1
SqueezeLast(t) ==
    IF t.err THEN ShapeError
    ELSE IF t.shape # <<>> /\ t.shape[Len(t.shape)] = 1
         THEN Tensor(SubSeq(t.shape, 1, Len(t.shape) - 1), t.data)
         ELSE t

\* a pooling that gives zeros for a cloud without points instead of raising
MaxDim1_EmptyIsZero(t) ==
    IF t.err \/ Len(t.shape) # 3 THEN ShapeError
    ELSE LET B == t.shape[1]
             N == t.shape[2]
             C == t.shape[3]
         IN Tensor(<<B, C>>,
                   [k \in 1..(B * C) |->
                      LET b == (k - 1) \div C + 1
                          c == ((k - 1) % C) + 1
                      IN IF N = 0 THEN 0
                         ELSE MaxSeq([n \in 1..N |-> At3(t, b, n, c)])])

\* torch.max(t, dim=1)[0] of a 3-d tensor (batch, points, channels)
MaxDim1(t) ==
    IF t.err \/ Len(t.shape) # 3 THEN ShapeError
    ELSE IF t.shape[2] = 0 THEN ShapeError
    ELSE LET B == t.shape[1]
             N == t.shape[2]
             C == t.shape[3]
         IN Tensor(<<B, C>>,
                   [k \in 1..(B * C) |->
                      LET b == (k - 1) \div C + 1
                          c == ((k - 1) % C) + 1
                      IN MaxSeq([n \in 1..N |-> At3(t, b, n, c)])])

\* a pooling that keeps the features of the last point instead of the maximum
MaxDim2Keep_LastPoint(t) ==
    IF t.err \/ Len(t.shape) # 3 THEN ShapeError
    ELSE IF t.shape[3] = 0 THEN ShapeError
    ELSE LET B == t.shape[1]
             C == t.shape[2]
             N == t.shape[3]
         IN Tensor(<<B, C, 1>>,
                   [k \in 1..(B * C) |->
                      LET b == (k - 1) \div C + 1
                          c == ((k - 1) % C) + 1
                      IN At3(t, b, c, N)])

\* torch.max(t, dim=2, keepdim=True)[0] of a 3-d tensor (batch, channels, points)
MaxDim2Keep(t) ==
    IF t.err \/ Len(t.shape) # 3 THEN ShapeError
    ELSE IF t.shape[3] = 0 THEN ShapeError
    ELSE LET B == t.shape[1]
             C == t.shape[2]
             N == t.shape[3]
         IN Tensor(<<B, C, 1>>,
                   [k \in 1..(B * C) |->
                      LET b == (k - 1) \div C + 1
                          c == ((k - 1) % C) + 1
                      IN MaxSeq([n \in 1..N |-> At3(t, b, c, n)])])

\* an activation that clamps nothing
ReLU_Identity(t) == t

\* nn.ReLU
ReLU(t) ==
    IF t.err THEN ShapeError
    ELSE Tensor(t.shape, [k \in 1..Len(t.data) |-> Max2(0, t.data[k])])

(* ------------------------------ modules -------------------------------- *)
\* numerical-stability constant of BatchNorm1d, in the smallest unit of the
\* integer arithmetic (1e-5 in torch)
Eps == 1

\* the k-th draw of the random number generator in state seed, uniform over
\* -bound..bound
Uniform(seed, k, bound) ==
    ((((12 * k + 25 * seed) * (k + 9 * seed + 5)) \div 5) % (2 * bound + 1)) - bound

\* nn.init.xavier_uniform_: U(-a, a), a = sqrt(6 / (fan_in + fan_out))
XavierBound(fan_in, fan_out) ==
    Isqrt((6 * WeightScale * WeightScale) \div (fan_in + fan_out))

\* default reset_parameters of nn.Linear and nn.Conv1d: kaiming_uniform_ with
\* a = sqrt(5) for the weight and U(-1/sqrt(fan_in), 1/sqrt(fan_in)) for the
\* bias, both with bound 1 / sqrt(fan_in)
DefaultBound(fan_in) == Isqrt((WeightScale * WeightScale) \div fan_in)

\* nn.Linear(in, out) / nn.Conv1d(in, out, 1) as constructed: default
\* initialization.  id numbers the module inside the network.
Affine(kind, id, fan_in, fan_out, seed) ==
    [kind |-> kind, id |-> id, in |-> fan_in, out |-> fan_out,
     weight |-> [o \in 1..fan_out |-> [i \in 1..fan_in |->
                   Uniform(seed, 100 * id + 10 * o + i, DefaultBound(fan_in))]],
     bias |-> [o \in 1..fan_out |->
                   Uniform(seed, 100 * id + 10 * o, DefaultBound(fan_in))],
     winit |-> "kaiming_uniform", binit |-> "uniform",
     running_mean |-> <<>>, running_var |-> <<>>, num_batches_tracked |-> 0]

Linear(id, fan_in, fan_out, seed) == Affine("Linear", id, fan_in, fan_out, seed)

Conv1d(id, fan_in, fan_out, seed) == Affine("Conv1d", id, fan_in, fan_out, seed)

\* nn.BatchNorm1d(n): scale 1, shift 0, running mean 0, running variance 1
BatchNorm1d(n) ==
    [kind |-> "BatchNorm1d", id |-> 0, in |-> n, out |-> n,
     weight |-> [c \in 1..n |-> 1], bias |-> [c \in 1..n |-> 0],
     winit |-> "ones", binit |-> "zeros",
     running_mean |-> [c \in 1..n |-> 0], running_var |-> [c \in 1..n |-> 1],
     num_batches_tracked |-> 0]

\* nn.ReLU()
ReLUModule ==
    [kind |-> "ReLU", id |-> 0, in |-> 0, out |-> 0, weight |-> <<>>, bias |-> <<>>,
     winit |-> "none", binit |-> "none",
     running_mean |-> <<>>, running_var |-> <<>>, num_batches_tracked |-> 0]

\* an init_weights that tests isinstance(m, nn.Linear) only
init_weights_LinearOnly(m, seed) ==
    IF m.kind = "Linear"
    THEN [m EXCEPT
           !.weight = [o \in 1..m.out |-> [i \in 1..m.in |->
                         Uniform(seed, 1000 + 100 * m.id + 10 * o + i,
                                 XavierBound(m.in, m.out))]],
           !.winit = "xavier_uniform",
           !.bias = [o \in 1..m.out |-> 0],
           !.binit = "zeros"]
    ELSE m

\* init_weights(m): Xavier-uniform weight and zero bias for Linear and Conv1d,
\* every other module untouched
init_weights(m, seed) ==
    IF m.kind = "Linear" \/ m.kind = "Conv1d"
    THEN [m EXCEPT
           !.weight = [o \in 1..m.out |-> [i \in 1..m.in |->
                         Uniform(seed, 1000 + 100 * m.id + 10 * o + i,
                                 XavierBound(m.in, m.out))]],
           !.winit = "xavier_uniform",
           !.bias = [o \in 1..m.out |-> 0],
           !.binit = "zeros"]
    ELSE m

\* F.linear: y[r] = W x[r] + b on a 2-d tensor (rows, in_features)
LinearForward(m, t) ==
    IF t.err \/ Len(t.shape) # 2 THEN ShapeError
    ELSE IF t.shape[2] # m.in THEN ShapeError
    ELSE LET R == t.shape[1]
         IN Tensor(<<R, m.out>>,
                   [k \in 1..(R * m.out) |->
                      LET r == (k - 1) \div m.out + 1
                          o == ((k - 1) % m.out) + 1
                      IN SumSeq([i \in 1..m.in |-> m.weight[o][i] * At2(t, r, i)])
                         + m.bias[o]])

\* F.conv1d with kernel size 1 on (batch, channels, points): the same affine
\* map applied at every point; a kernel of 1 does not fit an input of length 0
Conv1dForward(m, t) ==
    IF t.err \/ Len(t.shape) # 3 THEN ShapeError
    ELSE IF t.shape[2] # m.in \/ t.shape[3] < 1 THEN ShapeError
    ELSE LET B == t.shape[1]
             N == t.shape[3]
         IN Tensor(<<B, m.out, N>>,
                   [k \in 1..(B * m.out * N) |->
                      LET b == (k - 1) \div (m.out * N) + 1
                          o == ((k - 1) % (m.out * N)) \div N + 1
                          n == ((k - 1) % N) + 1
                      IN SumSeq([c \in 1..m.in |-> m.weight[o][c] * At3(t, b, c, n)])
                         + m.bias[o]])

\* the channel of the k-th element of a (rows, C) or (batch, C, points) tensor
ChannelOf(t, k) ==
    IF Len(t.shape) = 2 THEN ((k - 1) % t.shape[2]) + 1
    ELSE (((k - 1) \div t.shape[3]) % t.shape[2]) + 1

\* the values of channel c, in storage order
RECURSIVE ChannelValuesFrom(_, _, _)
ChannelValuesFrom(t, c, k) ==
    IF k > Len(t.data) THEN <<>>
    ELSE IF ChannelOf(t, k) = c
         THEN <<t.data[k]>> \o ChannelValuesFrom(t, c, k + 1)
         ELSE ChannelValuesFrom(t, c, k + 1)

ChannelValues(t, c) == ChannelValuesFrom(t, c, 1)

\* per-channel mean, biased and unbiased variance of the current batch
BatchMean(vals) == SumSeq(vals) \div Len(vals)

SquaredDeviations(vals) ==
    SumSeq([j \in 1..Len(vals) |-> (vals[j] - BatchMean(vals)) * (vals[j] - BatchMean(vals))])

\* a normalization that always uses the statistics of the batch
UsesBatchStatistics_Always(training) == TRUE

\* F.batch_norm is told to use the statistics of the batch exactly when the
\* module is in training mode
UsesBatchStatistics(training) == training

\* nn.BatchNorm1d.forward: in training mode the statistics of the current
\* batch are used and the running statistics are updated (momentum 0.1); in
\* evaluation mode the stored running statistics are used and nothing is
\* written.  Returns the output and the module after the call.
BatchNormForward(m, t, training) ==
    IF t.err \/ Len(t.shape) \notin {2, 3}
    THEN [out |-> ShapeError, mod |-> m]
    ELSE IF t.shape[2] # m.in
    THEN [out |-> ShapeError, mod |-> m]
    ELSE IF UsesBatchStatistics(training)
    THEN LET n == Numel(t) \div (IF m.in = 0 THEN 1 ELSE m.in)
         IN IF m.in > 0 /\ n <= 1
            THEN [out |-> ShapeError, mod |-> m]
            ELSE LET vals == [c \in 1..m.in |-> ChannelValues(t, c)]
                     mean == [c \in 1..m.in |-> BatchMean(vals[c])]
                     var == [c \in 1..m.in |-> SquaredDeviations(vals[c]) \div n]
                     unbiased == [c \in 1..m.in |->
                                    SquaredDeviations(vals[c]) \div (n - 1)]
                 IN [out |-> Tensor(t.shape, [k \in 1..Len(t.data) |->
                               LET c == ChannelOf(t, k)
                               IN (m.weight[c] * (t.data[k] - mean[c]))
                                    \div Isqrt(var[c] + Eps) + m.bias[c]]),
                     mod |-> [m EXCEPT
                        !.running_mean = [c \in 1..m.in |->
                            (9 * m.running_mean[c] + mean[c]) \div 10],
                        !.running_var = [c \in 1..m.in |->
                            (9 * m.running_var[c] + unbiased[c]) \div 10],
                        !.num_batches_tracked = m.num_batches_tracked + 1]]
    ELSE [out |-> Tensor(t.shape, [k \in 1..Len(t.data) |->
                    LET c == ChannelOf(t, k)
                    IN (m.weight[c] * (t.data[k] - m.running_mean[c]))
                         \div Isqrt(m.running_var[c] + Eps) + m.bias[c]]),
          mod |-> m]

\* one module of an nn.Sequential applied to t
ModuleForward(m, t, training) ==
    IF m.kind = "Linear" THEN [out |-> LinearForward(m, t), mod |-> m]
    ELSE IF m.kind = "Conv1d" THEN [out |-> Conv1dForward(m, t), mod |-> m]
    ELSE IF m.kind = "BatchNorm1d" THEN BatchNormForward(m, t, training)
    ELSE [out |-> ReLU(t), mod |-> m]

\* nn.Sequential.forward: the modules in order, each fed the previous output.
\* Returns the output, the modules after the call and the output of every
\* module.
RECURSIVE SequentialForward(_, _, _)
SequentialForward(mods, t, training) ==
    IF mods = <<>> THEN [out |-> t, mods |-> <<>>, outs |-> <<>>]
    ELSE LET first == ModuleForward(Head(mods), t, training)
             rest == SequentialForward(Tail(mods), first.out, training)
         IN [out |-> rest.out, mods |-> <<first.mod>> \o rest.mods,
             outs |-> <<first.out>> \o rest.outs]

(* ------------------------------ SimplePCN ------------------------------ *)
\* SimplePCN.__init__: a freshly constructed nn.Module is in training mode
SimplePCN(input_points, output_points, feature_dim, seed) ==
    [variant |-> "SimplePCN",
     input_points |-> input_points,
     output_points |-> output_points,
     feature_dim |-> feature_dim,
     training |-> TRUE,
     encoder |-> << Linear(1, 3, Width, seed), BatchNorm1d(Width), ReLUModule,
                    Linear(2, Width, Width, seed), BatchNorm1d(Width), ReLUModule,
                    Linear(3, Width, feature_dim, seed), BatchNorm1d(feature_dim),
                    ReLUModule >>,
     decoder |-> << Linear(4, feature_dim, Width, seed), BatchNorm1d(Width), ReLUModule,
                    Linear(5, Width, Width, seed), BatchNorm1d(Width), ReLUModule,
                    Linear(6, Width, output_points * 3, seed) >>]

\* what a forward pass leaves behind: the intermediate tensors, the returned
\* cloud (ShapeError when the pass raised) and the network after the call
ForwardResult(features, global_feature, hidden, flat, completed, net) ==
    [features |-> features, global_feature |-> global_feature, hidden |-> hidden,
     flat |-> flat, completed |-> completed, net |-> net]

\* SimplePCN.forward
SimplePCNForward(net, partial_cloud) ==
    LET batch_size == partial_cloud.shape[1]
        num_points == partial_cloud.shape[2]
        x == View(partial_cloud, <<-1, 3>>)
        enc == SequentialForward(net.encoder, x, net.training)
        features == View(enc.out, <<batch_size, num_points, net.feature_dim>>)
        global_feature == MaxDim1(features)
        dec == SequentialForward(net.decoder, global_feature, net.training)
        completed == View(dec.out, <<batch_size, net.output_points, 3>>)
    IN ForwardResult(features, global_feature, dec.outs[Len(dec.outs) - 1],
                     dec.out, completed,
                     [net EXCEPT !.encoder = enc.mods, !.decoder = dec.mods])

(* ------------------------ PointCloudCompletionNet ----------------------- *)
\* PointCloudEncoder.__init__
PointCloudEncoder(input_dim, feature_dim, seed) ==
    [conv1 |-> Conv1d(1, input_dim, Width, seed),
     conv2 |-> Conv1d(2, Width, Width, seed),
     conv3 |-> Conv1d(3, Width, feature_dim, seed),
     bn1 |-> BatchNorm1d(Width),
     bn2 |-> BatchNorm1d(Width),
     bn3 |-> BatchNorm1d(feature_dim)]

\* a decoder whose last layer produces output_points values, not 3 per point
PointCloudDecoder_OneValuePerPoint(feature_dim, output_points, seed) ==
    [output_points |-> output_points,
     fc1 |-> Linear(4, feature_dim, Width, seed),
     fc2 |-> Linear(5, Width, Width, seed),
     fc3 |-> Linear(6, Width, output_points, seed),
     bn1 |-> BatchNorm1d(Width),
     bn2 |-> BatchNorm1d(Width)]

\* PointCloudDecoder.__init__
PointCloudDecoder(feature_dim, output_points, seed) ==
    [output_points |-> output_points,
     fc1 |-> Linear(4, feature_dim, Width, seed),
     fc2 |-> Linear(5, Width, Width, seed),
     fc3 |-> Linear(6, Width, output_points * 3, seed),
     bn1 |-> BatchNorm1d(Width),
     bn2 |-> BatchNorm1d(Width)]

\* a network made of an encoder and a decoder, as PointCloudCompletionNet
\* holds them; a freshly constructed nn.Module is in training mode
EncoderDecoder(variant, input_points, output_points, encoder, decoder) ==
    [variant |-> variant,
     input_points |-> input_points,
     output_points |-> output_points,
     training |-> TRUE,
     encoder |-> encoder,
     decoder |-> decoder]

\* PointCloudCompletionNet.__init__: both parts get the same feature_dim
PointCloudCompletionNet(input_points, output_points, seed) ==
    EncoderDecoder("PointCloudCompletionNet", input_points, output_points,
                   PointCloudEncoder(3, FEATURE_DIM, seed),
                   PointCloudDecoder(FEATURE_DIM, output_points, seed))

\* PointCloudEncoder.forward, lines
\*   x = relu(bn1(conv1(x))); x = relu(bn2(conv2(x))); x = relu(bn3(conv3(x)))
\* the modules in the order they are applied
PointCloudEncoderLayers(e) ==
    << e.conv1, e.bn1, ReLUModule, e.conv2, e.bn2, ReLUModule,
       e.conv3, e.bn3, ReLUModule >>

\* PointCloudDecoder.forward, lines
\*   x = relu(bn1(fc1(x))); x = relu(bn2(fc2(x))); x = fc3(x)
\* the modules in the order they are applied
PointCloudDecoderLayers(d) ==
    << d.fc1, d.bn1, ReLUModule, d.fc2, d.bn2, ReLUModule, d.fc3 >>

\* PointCloudCompletionNet.forward with the forward of its two parts:
\*   x.transpose(1, 2); PointCloudEncoder.forward: the layers, then
\*   torch.max(x, dim=2, keepdim=True)[0]; PointCloudDecoder.forward:
\*   x.squeeze(-1), the layers, then x.view(-1, output_points, 3)
PointCloudCompletionNetForward(net, x) ==
    LET transposed == Transpose12(x)
        enc == SequentialForward(PointCloudEncoderLayers(net.encoder), transposed,
                                 net.training)
        features == MaxDim2Keep(enc.out)
        squeezed == SqueezeLast(features)
        dec == SequentialForward(PointCloudDecoderLayers(net.decoder), squeezed,
                                 net.training)
        completed == View(dec.out, <<-1, net.decoder.output_points, 3>>)
    IN ForwardResult(enc.out, features, dec.outs[Len(dec.outs) - 1], dec.out,
                     completed,
                     [net EXCEPT !.encoder.bn1 = enc.mods[2],
                                 !.encoder.bn2 = enc.mods[5],
                                 !.encoder.bn3 = enc.mods[8],
                                 !.decoder.bn1 = dec.mods[2],
                                 !.decoder.bn2 = dec.mods[5]])

\* model(x)
Forward(net, x) ==
    IF net.variant = "SimplePCN" THEN SimplePCNForward(net, x)
    ELSE PointCloudCompletionNetForward(net, x)

\* a model.eval() that was left out
Eval_Skipped(net) == net

\* model.eval(): every module leaves training mode
Eval(net) == [net EXCEPT !.training = FALSE]

\* model.apply(init_weights) on a PointCloudCompletionNet
ApplyInitWeights(net, seed) ==
    [net EXCEPT
       !.encoder = [f \in DOMAIN net.encoder |-> init_weights(net.encoder[f], seed)],
       !.decoder = [f \in DOMAIN net.decoder |->
                      IF f = "output_points" THEN net.decoder[f]
                      ELSE init_weights(net.decoder[f], seed)]]

(* ------------------------------- inputs -------------------------------- *)
\* the coordinates a point of dimension D may have
SamplePoints(D) ==
    IF D = 3 THEN { <<2, -1, 1>>, <<-1, 3, -2>> }
    ELSE { [i \in 1..D |-> i - 2] }

\* the dimensions of the points passed to forward
PointDims == {2, 3, 6}

\* every (B, N, D) tensor of sample points
Clouds(B, N, D) ==
    { Tensor(<<B, N, D>>,
             [k \in 1..(B * N * D) |-> f[(k - 1) \div D + 1][((k - 1) % D) + 1]]) :
        f \in [1..(B * N) -> SamplePoints(D)] }

Inputs ==
    UNION { Clouds(c[1], c[2], c[3]) :
              c \in { d \in (1..MaxBatch) \X (0..MaxPoints) \X PointDims :
                        d[1] * d[2] <= MaxCells } }

\* torch.rand(1, 1024, 3) / torch.randn(1, 1024, 3)
ExampleInputs == Clouds(1, INPUT_COUNT, 3)

(* -------------------------------- state -------------------------------- *)
VARIABLES
    pc,         \* where the running script is
    rng,        \* state of torch's random number generator
    model,      \* the network
    input,      \* argument of the last forward call
    result,     \* what the last forward call computed
    prediction, \* outcome of coreml_model.predict in test_conversion
    test_successful,
    quantized,  \* return value of quantize_model
    log         \* the steps of main() and its final report, in order

vars == <<pc, rng, model, input, result, prediction, test_successful, quantized, log>>

NoModel == [variant |-> "none"]

NoTensor == [err |-> TRUE, shape |-> <<>>, data |-> <<>>]

NoResult ==
    [called |-> FALSE, features |-> NoTensor, global_feature |-> NoTensor,
     hidden |-> NoTensor, flat |-> NoTensor, completed |-> NoTensor]

NoPrediction == [ran |-> FALSE, raised |-> FALSE, shape |-> <<>>]

Init ==
    /\ pc = "start"
    /\ rng \in 1..NumSeeds
    /\ model = NoModel
    /\ input = NoTensor
    /\ result = NoResult
    /\ prediction = NoPrediction
    /\ test_successful = FALSE
    /\ quantized = "unset"
    /\ log = <<>>

\* the record kept of a forward call
Outcome(r) ==
    [called |-> TRUE, features |-> r.features, global_feature |-> r.global_feature,
     hidden |-> r.hidden, flat |-> r.flat, completed |-> r.completed]

(* ------------------ convert_pcn_to_coreml.py: main() -------------------- *)
\* create_model(): SimplePCN(1024, 2048, 512) then model.eval(); the weights
\* stay as the constructor drew them
create_model(seed) == Eval(SimplePCN(INPUT_COUNT, OUTPUT_COUNT, FEATURE_DIM, seed))

CreateModel ==
    /\ pc = "start"
    /\ model' = create_model(rng)
    /\ log' = Append(log, "create_model")
    /\ pc' = "created"
    /\ UNCHANGED <<rng, input, result, prediction, test_successful, quantized>>

\* convert_to_coreml(): torch.jit.trace runs the model on the example input;
\* ct.convert and save are calls into coremltools, which may raise; an
\* exception leaves main()
ConvertToCoreml ==
    /\ pc = "created"
    /\ \E x \in ExampleInputs, converted \in BOOLEAN :
         LET r == Forward(model, x)
         IN /\ input' = x
            /\ result' = Outcome(r)
            /\ model' = r.net
            /\ pc' = IF r.completed.err \/ ~converted THEN "raised" ELSE "converted"
    /\ log' = Append(log, "convert_to_coreml")
    /\ UNCHANGED <<rng, prediction, test_successful, quantized>>

\* the shapes coreml_model.predict may return for completed_point_cloud
PredictShapes == { <<1, OUTPUT_COUNT, 3>>, <<1, OUTPUT_COUNT * 3>>, <<OUTPUT_COUNT, 3>> }

\* a test_conversion that returns False when the shape is not the expected one
test_conversion_ShapeChecked(p) == ~p.raised /\ p.shape = <<1, OUTPUT_COUNT, 3>>

\* test_conversion(): True unless predict (or reading its output) raised; a
\* shape other than (1, 2048, 3) is reported and the result is still True
test_conversion(p) == ~p.raised

TestConversion ==
    /\ pc = "converted"
    /\ \E p \in { [ran |-> TRUE, raised |-> TRUE, shape |-> <<>>] }
                \cup { [ran |-> TRUE, raised |-> FALSE, shape |-> s] : s \in PredictShapes } :
         /\ prediction' = p
         /\ test_successful' = test_conversion(p)
    /\ log' = Append(log, "test_conversion")
    /\ pc' = "tested"
    /\ UNCHANGED <<rng, model, input, result, quantized>>

\* quantize_model(): the quantized model, or None when anything in it raised
QuantizeModel ==
    /\ pc = "tested"
    /\ test_successful
    /\ \E q \in {"quantized_model", "None"} : quantized' = q
    /\ log' = Append(log, "quantize_model")
    /\ pc' = "quantized"
    /\ UNCHANGED <<rng, model, input, result, prediction, test_successful>>

PrintUsageInstructions ==
    /\ pc = "quantized"
    /\ log' = Append(log, "print_usage_instructions")
    /\ pc' = "usage"
    /\ UNCHANGED <<rng, model, input, result, prediction, test_successful, quantized>>

AllDone ==
    /\ pc = "usage"
    /\ log' = Append(log, "ALL DONE")
    /\ pc' = "done"
    /\ UNCHANGED <<rng, model, input, result, prediction, test_successful, quantized>>

ConversionFailed ==
    /\ pc = "tested"
    /\ ~test_successful
    /\ log' = Append(log, "Conversion failed")
    /\ pc' = "failed"
    /\ UNCHANGED <<rng, model, input, result, prediction, test_successful, quantized>>

(* ------------------------- create_pcn_model.py -------------------------- *)
\* model = PointCloudCompletionNet(input_points=1024, output_points=2048)
ConstructNet ==
    /\ pc = "start"
    /\ model' = PointCloudCompletionNet(INPUT_COUNT, OUTPUT_COUNT, rng)
    /\ pc' = "constructed"
    /\ UNCHANGED <<rng, input, result, prediction, test_successful, quantized, log>>

\* the feature_dim arguments the two parts may be constructed with
FeatureDims == {FEATURE_DIM, FEATURE_DIM + 1}

\* PointCloudEncoder(3, e) and PointCloudDecoder(d, output_points) constructed
\* on their own and chained as PointCloudCompletionNet chains them: neither
\* constructor looks at the other's dimensions
ComposeEncoderDecoder ==
    /\ pc = "start"
    /\ \E e \in FeatureDims, d \in FeatureDims :
         model' = EncoderDecoder("EncoderDecoder", INPUT_COUNT, OUTPUT_COUNT,
                                 PointCloudEncoder(3, e, rng),
                                 PointCloudDecoder(d, OUTPUT_COUNT, rng))
    /\ pc' = "constructed"
    /\ UNCHANGED <<rng, input, result, prediction, test_successful, quantized, log>>

\* model.eval()
EvalModel ==
    /\ pc = "constructed"
    /\ model' = Eval(model)
    /\ pc' = "eval"
    /\ UNCHANGED <<rng, input, result, prediction, test_successful, quantized, log>>

\* model.apply(init_weights)
InitWeights ==
    /\ pc = "eval"
    /\ model' = ApplyInitWeights(model, rng)
    /\ pc' = "initialized"
    /\ UNCHANGED <<rng, input, result, prediction, test_successful, quantized, log>>

(* ------------------------------ inference ------------------------------- *)
\* the positions at which the network is complete and forward may be called
Ready == pc \in {"created", "initialized"}

\* model(x) on any input; a raised exception leaves the caller with no output
ForwardCall ==
    /\ Ready
    /\ \E x \in Inputs :
         LET r == Forward(model, x)
         IN /\ input' = x
            /\ result' = Outcome(r)
            /\ model' = r.net
    /\ UNCHANGED <<pc, rng, prediction, test_successful, quantized, log>>

Next ==
    \/ CreateModel
    \/ ConvertToCoreml
    \/ TestConversion
    \/ QuantizeModel
    \/ PrintUsageInstructions
    \/ AllDone
    \/ ConversionFailed
    \/ ConstructNet
    \/ ComposeEncoderDecoder
    \/ EvalModel
    \/ InitWeights
    \/ ForwardCall

Spec == Init /\ [][Next]_vars

(* ------------------------- reading the state --------------------------- *)
\* every module of the network, in the order forward applies them
AllLayers(net) ==
    IF net.variant = "SimplePCN" THEN net.encoder \o net.decoder
    ELSE PointCloudEncoderLayers(net.encoder) \o PointCloudDecoderLayers(net.decoder)

IsAffine(m) == m.kind \in {"Linear", "Conv1d"}

AffineLayers(net) == SelectSeq(AllLayers(net), IsAffine)

\* the layers of the encoder and of the decoder, by kind
LayerKinds(layers) ==
    [i \in 1..Len(layers) |-> IF IsAffine(layers[i]) THEN "affine" ELSE layers[i].kind]

EncoderKinds(net) ==
    LayerKinds(IF net.variant = "SimplePCN" THEN net.encoder
               ELSE PointCloudEncoderLayers(net.encoder))

DecoderKinds(net) ==
    LayerKinds(IF net.variant = "SimplePCN" THEN net.decoder
               ELSE PointCloudDecoderLayers(net.decoder))

\* the feature vector of point n of cloud b: SimplePCN keeps the features as
\* (batch, points, channels), PointCloudCompletionNet as (batch, channels, points)
PointFeature(net, features, b, n) ==
    IF net.variant = "SimplePCN"
    THEN [c \in 1..features.shape[3] |-> At3(features, b, n, c)]
    ELSE [c \in 1..features.shape[2] |-> At3(features, b, c, n)]

\* point n of cloud b of an input
PointOf(x, b, n) == [d \in 1..x.shape[3] |-> At3(x, b, n, d)]

\* the input whose cloud b holds the points sel[1], sel[2], ... of cloud b of x
Rearranged(x, sel) ==
    Tensor(<<x.shape[1], Len(sel), x.shape[3]>>,
           [k \in 1..(x.shape[1] * Len(sel) * x.shape[3]) |->
              LET D == x.shape[3]
                  b == (k - 1) \div (Len(sel) * D) + 1
                  m == ((k - 1) % (Len(sel) * D)) \div D + 1
                  d == ((k - 1) % D) + 1
              IN At3(x, b, sel[m], d)])

\* the selections that keep every point of a cloud of N points: its
\* permutations, and its permutations with one point repeated
Selections(N) ==
    { sel \in UNION { [1..M -> 1..N] : M \in {N, N + 1} } :
        \A n \in 1..N : \E m \in DOMAIN sel : sel[m] = n }

\* the network is one of the two networks of the repository
TwoVariants == model.variant \in {"SimplePCN", "PointCloudCompletionNet"}

\* the last call got at least one point per cloud, each of 3 coordinates
ValidCall == result.called /\ input.shape[3] = 3 /\ input.shape[2] > 0

(* -------------------------------- claims ------------------------------- *)
\* C1: for SimplePCN and PointCloudCompletionNet and every cloud of N > 0
\* points of 3 coordinates, whatever N, forward returns exactly OUTPUT_COUNT
\* points of 3 coordinates per cloud: shape (batch, output_points, 3).
C1_OutputShape ==
    (ValidCall /\ TwoVariants) =>
        /\ ~result.completed.err
        /\ model.output_points = OUTPUT_COUNT
        /\ result.completed.shape = <<input.shape[1], OUTPUT_COUNT, 3>>
        /\ Len(result.completed.data) = input.shape[1] * OUTPUT_COUNT * 3

\* a batch of two clouds of one point each (not INPUT_COUNT points) completed
C1_Witness ==
    /\ ValidCall
    /\ model.variant = "PointCloudCompletionNet"
    /\ input.shape = <<2, 1, 3>>
    /\ INPUT_COUNT # 1
    /\ result.completed.shape = <<2, OUTPUT_COUNT, 3>>

\* C2: in inference mode the global descriptor and the completed cloud depend
\* only on the set of points of each cloud: every permutation of the points
\* and every repetition of a point already present gives the same descriptor
\* and the same output.
C2_SetOfPointsOnly ==
    (ValidCall /\ ~result.completed.err) =>
        \A sel \in Selections(input.shape[2]) :
            LET r == Forward(model, Rearranged(input, sel))
            IN /\ r.global_feature = result.global_feature
               /\ r.completed = result.completed

\* a cloud of two different points whose features differ, so that the order
\* could matter
C2_Witness ==
    /\ ValidCall
    /\ ~result.completed.err
    /\ input.shape[2] = 2
    /\ PointOf(input, 1, 1) # PointOf(input, 1, 2)
    /\ PointFeature(model, result.features, 1, 1)
         # PointFeature(model, result.features, 1, 2)

\* C3: a call with points of other than 3 coordinates, or with no point,
\* raises and returns no cloud; in particular points of 6 coordinates are not
\* completed as twice as many points of 3 coordinates.
C3_BadInputRejected ==
    (result.called /\ (input.shape[3] # 3 \/ input.shape[2] = 0)) =>
        result.completed.err

\* SimplePCN called with points of 6 coordinates, which view(-1, 3) accepts
C3_Witness ==
    /\ result.called
    /\ model.variant = "SimplePCN"
    /\ input.shape[3] = 6
    /\ input.shape[2] > 0
    /\ ~View(input, <<-1, 3>>).err
    /\ result.completed.err

\* the declared dimensions of the layers chain: every layer takes what the
\* previous affine layer produces, and the last one produces output_points x 3
LayersChain(net) ==
    LET layers == AllLayers(net)
        affine == AffineLayers(net)
    IN /\ \A i \in 1..(Len(affine) - 1) : affine[i].out = affine[i + 1].in
       /\ \A i \in 2..Len(layers) :
            layers[i].kind = "BatchNorm1d" => layers[i].in = layers[i - 1].out
       /\ affine[Len(affine)].out = net.output_points * 3

\* C4: a network whose declared layer dimensions do not chain is rejected at
\* construction, so that a constructed network never raises a dimension
\* error when called on a valid cloud.
C4_MismatchRejectedAtConstruction ==
    /\ model # NoModel => LayersChain(model)
    /\ ValidCall => ~result.completed.err

\* C5: inference never changes the network: a step taken once the network is
\* complete (a forward call, the tracing run of the conversion) leaves every
\* parameter, every running statistic and the size constants as they were.
C5_ModelNotMutated == [][Ready => model' = model]_vars

\* the running statistics are untouched after a successful call
C5_Witness ==
    /\ ValidCall
    /\ ~result.completed.err
    /\ \A i \in DOMAIN AllLayers(model) :
         LET m == AllLayers(model)[i]
         IN m.kind = "BatchNorm1d" =>
              /\ m.num_batches_tracked = 0
              /\ \A c \in 1..m.in : m.running_mean[c] = 0 /\ m.running_var[c] = 1

\* C6: the feature vector of a point is the one the encoder gives the point
\* alone: it does not depend on the other points of the cloud, on N or on the
\* other clouds of the batch.
C6_FeatureOfPointAlone ==
    (ValidCall /\ ~result.features.err) =>
        \A b \in 1..input.shape[1], n \in 1..input.shape[2] :
            LET alone == Forward(model, Rearranged(
                             Tensor(<<1, input.shape[2], 3>>,
                                    [k \in 1..(input.shape[2] * 3) |->
                                       input.data[(b - 1) * input.shape[2] * 3 + k]]),
                             <<n>>))
            IN /\ ~alone.features.err
               /\ PointFeature(model, alone.features, 1, 1)
                    = PointFeature(model, result.features, b, n)

\* two clouds in the batch, each of two points with different features
C6_Witness ==
    /\ ValidCall
    /\ ~result.features.err
    /\ input.shape = <<2, 2, 3>>
    /\ PointFeature(model, result.features, 1, 1)
         # PointFeature(model, result.features, 1, 2)
    /\ PointFeature(model, result.features, 2, 1)
         # PointFeature(model, result.features, 1, 1)

\* every affine layer has the Xavier-uniform weights and the zero bias
XavierAndZeroBias(net) ==
    \A i \in DOMAIN AffineLayers(net) :
        LET m == AffineLayers(net)[i]
        IN /\ m.winit = "xavier_uniform"
           /\ \A o \in 1..m.out :
                /\ m.bias[o] = 0
                /\ \A j \in 1..m.in :
                     /\ m.weight[o][j] <= XavierBound(m.in, m.out)
                     /\ m.weight[o][j] >= -XavierBound(m.in, m.out)

\* every affine layer has the weights and the bias its constructor drew
ConstructorDefaults(net) ==
    \A i \in DOMAIN AffineLayers(net) :
        LET m == AffineLayers(net)[i]
        IN /\ m.winit = "kaiming_uniform"
           /\ m.binit = "uniform"
           /\ \A o \in 1..m.out :
                /\ m.bias[o] <= DefaultBound(m.in)
                /\ m.bias[o] >= -DefaultBound(m.in)
                /\ \A j \in 1..m.in :
                     /\ m.weight[o][j] <= DefaultBound(m.in)
                     /\ m.weight[o][j] >= -DefaultBound(m.in)

\* C7 as stated: the network each script ends up with, SimplePCN of
\* create_model() and the PointCloudCompletionNet of create_pcn_model.py, has
\* Xavier-uniform weights and zero biases in every affine layer.
C7_BothXavier == (Ready /\ TwoVariants) => XavierAndZeroBias(model)

\* C7 as amended: the PointCloudCompletionNet of create_pcn_model.py has
\* Xavier-uniform weights and zero biases in every affine layer; the
\* SimplePCN of create_model() keeps what the constructors of its layers
\* drew: weights and biases uniform within 1/sqrt(fan_in), biases not zeroed.
C7_XavierOnlyAfterInitWeights ==
    /\ (pc = "initialized") => XavierAndZeroBias(model)
    /\ (model.variant = "SimplePCN") =>
          /\ ConstructorDefaults(model)
          /\ ~XavierAndZeroBias(model)

\* the initialized PointCloudCompletionNet, with a weight and no bias
C7_Witness ==
    /\ pc = "initialized"
    /\ model.variant = "PointCloudCompletionNet"
    /\ \E i \in DOMAIN AffineLayers(model) :
         \E o \in 1..AffineLayers(model)[i].out :
            AffineLayers(model)[i].weight[o][1] # 0

\* C8: every layer but the decoder's last is affine, normalization, clamp at
\* zero, in that order, and the decoder's last is affine only: the features
\* of the points, the global descriptor and the decoder's hidden vector have
\* no negative component, and the flat output is the last affine map of the
\* hidden vector, unclamped.
C8_ClampedButLast ==
    /\ model # NoModel =>
         /\ EncoderKinds(model) = << "affine", "BatchNorm1d", "ReLU",
                                     "affine", "BatchNorm1d", "ReLU",
                                     "affine", "BatchNorm1d", "ReLU" >>
         /\ DecoderKinds(model) = << "affine", "BatchNorm1d", "ReLU",
                                     "affine", "BatchNorm1d", "ReLU",
                                     "affine" >>
    /\ (result.called /\ ~result.completed.err) =>
         /\ \A k \in DOMAIN result.features.data : result.features.data[k] >= 0
         /\ \A k \in DOMAIN result.global_feature.data :
              result.global_feature.data[k] >= 0
         /\ \A k \in DOMAIN result.hidden.data : result.hidden.data[k] >= 0
         /\ LET last == AffineLayers(model)[Len(AffineLayers(model))]
            IN \A b \in 1..result.flat.shape[1], o \in 1..result.flat.shape[2] :
                 At2(result.flat, b, o)
                   = SumSeq([j \in 1..last.in |->
                               last.weight[o][j] * At2(result.hidden, b, j)])
                     + last.bias[o]

\* a completed cloud with a negative coordinate, from features of which one
\* is clamped to zero and one is positive
C8_Witness ==
    /\ result.called
    /\ ~result.completed.err
    /\ \E k \in DOMAIN result.completed.data : result.completed.data[k] < 0
    /\ \E k \in DOMAIN result.features.data : result.features.data[k] > 0
    /\ \E k \in DOMAIN result.features.data : result.features.data[k] = 0

\* C9: the flat output is reshaped in row-major order: output point i
\* (from 0) is (flat[3i], flat[3i+1], flat[3i+2]).
C9_RowMajorReshape ==
    (result.called /\ ~result.completed.err) =>
        /\ result.flat.shape = <<input.shape[1], OUTPUT_COUNT * 3>>
        /\ result.completed.shape = <<input.shape[1], OUTPUT_COUNT, 3>>
        /\ \A b \in 1..input.shape[1], i \in 0..(OUTPUT_COUNT - 1), c \in 1..3 :
             At3(result.completed, b, i + 1, c) = At2(result.flat, b, 3 * i + c)

\* a completed cloud whose flat output holds at least three different values
C9_Witness ==
    /\ result.called
    /\ ~result.completed.err
    /\ Cardinality({ result.flat.data[k] : k \in 1..(OUTPUT_COUNT * 3) }) >= 3

\* s is a prefix of t
IsPrefix(s, t) == Len(s) <= Len(t) /\ s = SubSeq(t, 1, Len(s))

SuccessPath ==
    << "create_model", "convert_to_coreml", "test_conversion", "quantize_model",
       "print_usage_instructions", "ALL DONE" >>

FailurePath ==
    << "create_model", "convert_to_coreml", "test_conversion", "Conversion failed" >>

AfterSuccessfulTest == pc \in {"quantized", "usage", "done"}

\* C10 as stated: quantize_model, the usage instructions and ALL DONE are
\* reached only after a prediction whose output had the shape (1, 2048, 3).
C10_DoneOnlyWithExpectedShape ==
    AfterSuccessfulTest =>
        /\ prediction.ran
        /\ ~prediction.raised
        /\ prediction.shape = <<1, OUTPUT_COUNT, 3>>

\* C10 as amended: main() runs create_model, convert_to_coreml,
\* test_conversion in that order; quantize_model, the usage instructions and
\* ALL DONE are reached exactly when the prediction did not raise, whatever
\* the shape of its output; a prediction that raised ends in Conversion
\* failed; whatever quantize_model returns, the usage instructions and
\* ALL DONE follow.
C10_MainOrder ==
    /\ IsPrefix(log, SuccessPath) \/ IsPrefix(log, FailurePath)
    /\ AfterSuccessfulTest => prediction.ran /\ ~prediction.raised
    /\ pc = "failed" => prediction.ran /\ prediction.raised
    /\ pc = "tested" => /\ prediction.ran
                        /\ test_successful = ~prediction.raised
                        /\ test_successful => ENABLED QuantizeModel
                        /\ ~test_successful => ENABLED ConversionFailed
    /\ pc = "quantized" => ENABLED PrintUsageInstructions
    /\ pc = "usage" => ENABLED AllDone
    /\ pc = "done" => log = SuccessPath
    /\ pc = "failed" => log = FailurePath

\* ALL DONE reached although quantize_model failed and the predicted output
\* did not have the expected shape
C10_Witness ==
    /\ pc = "done"
    /\ quantized = "None"
    /\ ~prediction.raised
    /\ prediction.shape # <<1, OUTPUT_COUNT, 3>>

====
